---- MODULE Spec2Model ----
(***************************************************************************)
(* GuardianApiCognitoStack (cdk_stacks/api_cognito_auth_stack.py).         *)
(*                                                                         *)
(* The stack's constructor declares resources one statement at a time;     *)
(* app.synth() freezes the tree into a template; the provider's            *)
(* orchestration engine then creates the declared resources in any order   *)
(* its dependency graph allows; once the stack is deployed the gateway     *)
(* serves requests on the two stages.                                      *)
(*                                                                         *)
(*   tree     the construct tree: construct id -> resource descriptor      *)
(*   pc       the constructor's position (the next statement to run)       *)
(*   s_idx    the index of the stages loop (line 170)                      *)
(*   created  the resources the orchestration engine has created           *)
(*   resp     the gateway's answer to the last request                     *)
(***************************************************************************)
EXTENDS Integers, Sequences, FiniteSets, TLC

VARIABLES tree, pc, s_idx, created, resp

vars == <<tree, pc, s_idx, created, resp>>

(***************************************************************************)
(* Strings that may hold a reference the provider resolves at deploy time. *)
(* A string is a sequence of parts: a literal, or a reference to the id of *)
(* a declared resource.                                                    *)
(***************************************************************************)
Lit(s) == [ref |-> "", lit |-> s]

Tok(id) == [ref |-> id, lit |-> ""]

IsLit(p) == p.ref = ""

\* String concatenation: adjacent literals merge, references stay apart.
RECURSIVE Concat(_)
Concat(parts) ==
    IF Len(parts) <= 1 THEN parts
    ELSE LET rest == Concat(Tail(parts))
             h    == Head(parts)
         IN IF IsLit(h) /\ IsLit(Head(rest))
            THEN <<Lit(h.lit \o Head(rest).lit)>> \o Tail(rest)
            ELSE <<h>> \o rest

\* The resources a string refers to.
TokenRefs(parts) == {parts[i].ref : i \in DOMAIN parts} \ {""}

RefsOfAll(strings) == UNION {TokenRefs(strings[i]) : i \in DOMAIN strings}

\* The elements of a list.
Range(seq) == {seq[i] : i \in DOMAIN seq}

(***************************************************************************)
(* The constructor's local variables and the values it passes.             *)
(***************************************************************************)
guardian_vpc == "GuardianVPC"

max_azs == 1

cidr_mask == 24

subnet_configuration ==
    << [name |-> "GuardianSubnetPublic", cidr_mask |-> cidr_mask,
        subnet_type |-> "PUBLIC"],
       [name |-> "GuardianSubnetPrivate", cidr_mask |-> cidr_mask,
        subnet_type |-> "PRIVATE_ISOLATED"] >>

guardian_user_pool == "GuardianPool"

domain_prefix == "guardian"

guardian_readonly_scope ==
    [scope_name |-> "guardian.read",
     scope_description |-> "Scope to read data only"]

guardian_cognito_resource_server == "GuardianCognitoResourceServer"

resource_server_identifier == "guardian-cognito-resource-server"

resource_server_scopes == <<guardian_readonly_scope>>

\* resource_server.user_pool_resource_server_id: a reference to the declared
\* resource server, not the identifier it was declared with.
user_pool_resource_server_id(server) == Tok(server)

\* cognito.OAuthScope.resource_server(server, scope)
OAuthScope_resource_server(server, scope) ==
    Concat(<<user_pool_resource_server_id(server), Lit("/"), Lit(scope.scope_name)>>)

\* Faulty variant: flows left to their default (implicit and authorization-code grants).
client_o_auth_flows_Default == {"implicit", "authorization_code"}

client_o_auth_flows == {"client_credentials"}

\* Faulty variant: a scope object that no resource server declares.
client_o_auth_scopes_Undeclared ==
    << OAuthScope_resource_server(guardian_cognito_resource_server,
                                  [scope_name |-> "guardian.write",
                                   scope_description |-> "Scope to write data"]) >>

client_o_auth_scopes ==
    << OAuthScope_resource_server(guardian_cognito_resource_server,
                                  guardian_readonly_scope) >>

client_generate_secret == TRUE

guardian_autorizer == "GuardianAPIAuthorizer"

authorizer_cognito_user_pools == <<guardian_user_pool>>

guardian_lambda_role == "GuardianLambdaRole"

role_assumed_by == "lambda.amazonaws.com"

role_managed_policies == <<"service-role/AWSLambdaVPCAccessExecutionRole">>

guardian_api_backend_lambda == "GuardianReadLambda"

\* Faulty variant: the function declared without a network.
lambda_vpc_None == ""

lambda_vpc == guardian_vpc

lambda_role == guardian_lambda_role

guardian_api == "GuardianApiGatewayWithCors"

\* Faulty variant: deploy left at its default.
rest_api_deploy_Default == TRUE

rest_api_deploy == FALSE

guardian_endpoint == "galaxy"

ALL_ORIGINS == <<"*">>

\* Faulty variant: every method allowed.
cors_allow_methods_All == <<"OPTIONS", "GET", "PUT", "POST", "DELETE", "PATCH", "HEAD">>

cors_allow_methods == <<"GET", "OPTIONS">>

cors_allow_origins == ALL_ORIGINS

guardian_endpoint_lambda_integration ==
    [handler |-> guardian_api_backend_lambda,
     proxy |-> TRUE,
     integration_responses |->
        << [status_code |-> "200",
            response_parameters |->
               {<<"method.response.header.Access-Control-Allow-Origin", "'*'">>}] >>]

\* Faulty variant: the method declared without its authorizer.
method_authorizer_None == ""

method_authorizer == guardian_autorizer

\* Faulty variant: the authorization type left at its default.
method_authorization_type_None == "NONE"

method_authorization_type == "COGNITO"

\* Faulty variant: the scope string built from the resource server's name.
method_authorization_scopes_ByName ==
    << Concat(<<Lit("GuardianCognitoResourceServer"), Lit("/"),
                Lit(guardian_readonly_scope.scope_name)>>) >>

\* f"{resource_server.user_pool_resource_server_id}/{scope.scope_name}"
method_authorization_scopes ==
    << Concat(<<user_pool_resource_server_id(guardian_cognito_resource_server),
                Lit("/"), Lit(guardian_readonly_scope.scope_name)>>) >>

method_responses ==
    << [status_code |-> "200",
        response_parameters |->
           {<<"method.response.header.Access-Control-Allow-Origin", TRUE>>}] >>

guardian_api_deployment == "GuardianAPIGWDeployment"

\* Faulty variant: a third stage.
stages_Three == <<"dev", "test", "prod">>

stages == <<"dev", "prod">>

StageId(s) == s \o "_stage"

(***************************************************************************)
(* The construct tree.                                                     *)
(***************************************************************************)
Declared == DOMAIN tree

OfKind(k) == {id \in Declared : tree[id].kind = k}

Declare(id, desc) == tree' = [x \in Declared \cup {id} |-> IF x = id THEN desc ELSE tree[x]]

\* The subnets a function given a network and no subnet selection is placed in:
\* private with egress if the network has any, else isolated, else public.
DefaultSubnets(cfg) ==
    LET of(t) == {cfg[i].name : i \in {j \in DOMAIN cfg : cfg[j].subnet_type = t}}
    IN IF of("PRIVATE_WITH_EGRESS") # {} THEN of("PRIVATE_WITH_EGRESS")
       ELSE IF of("PRIVATE_ISOLATED") # {} THEN of("PRIVATE_ISOLATED")
       ELSE of("PUBLIC")

Init ==
    /\ tree = <<>>
    /\ pc = "Vpc"
    /\ s_idx = 1
    /\ created = {}
    /\ resp = [stage |-> "", method |-> "", valid |-> FALSE, issuer |-> "",
               scopes |-> {}, invoked |-> FALSE, status |-> "", headers |-> {}]

Step(from, to) == pc = from /\ pc' = to

\* ec2.Vpc(self, "GuardianVPC", ...)
NewVpc ==
    /\ Step("Vpc", "UserPool")
    /\ Declare(guardian_vpc,
               [kind |-> "Vpc", refs |-> {}, cidr |-> "10.2.0.0/16",
                max_azs |-> max_azs, subnet_configuration |-> subnet_configuration])
    /\ UNCHANGED <<s_idx, created, resp>>

\* cognito.UserPool(self, "GuardianPool", removal_policy=DESTROY)
NewUserPool ==
    /\ Step("UserPool", "UserPoolDomain")
    /\ Declare(guardian_user_pool,
               [kind |-> "UserPool", refs |-> {}, removal_policy |-> "DESTROY"])
    /\ UNCHANGED <<s_idx, created, resp>>

\* cognito.UserPoolDomain(self, "GuardianUserPoolDomain", user_pool=..., ...)
NewUserPoolDomain ==
    /\ Step("UserPoolDomain", "ResourceServer")
    /\ Declare("GuardianUserPoolDomain",
               [kind |-> "UserPoolDomain", refs |-> {guardian_user_pool},
                user_pool |-> guardian_user_pool, domain_prefix |-> domain_prefix])
    /\ UNCHANGED <<s_idx, created, resp>>

\* guardian_user_pool.add_resource_server("GuardianCognitoResourceServer", ...)
AddResourceServer ==
    /\ Step("ResourceServer", "Client")
    /\ Declare(guardian_cognito_resource_server,
               [kind |-> "UserPoolResourceServer", refs |-> {guardian_user_pool},
                user_pool |-> guardian_user_pool,
                identifier |-> resource_server_identifier,
                scopes |-> resource_server_scopes])
    /\ UNCHANGED <<s_idx, created, resp>>

\* guardian_user_pool.add_client("GuardianAppClient", ...)
AddClient ==
    /\ Step("Client", "Authorizer")
    /\ Declare("GuardianAppClient",
               [kind |-> "UserPoolClient",
                refs |-> {guardian_user_pool} \cup RefsOfAll(client_o_auth_scopes),
                user_pool |-> guardian_user_pool,
                auth_flows |-> {"user_srp"},
                o_auth_flows |-> client_o_auth_flows,
                o_auth_scopes |-> client_o_auth_scopes,
                generate_secret |-> client_generate_secret])
    /\ UNCHANGED <<s_idx, created, resp>>

\* apigateway.CognitoUserPoolsAuthorizer(self, "GuardianAPIAuthorizer", ...):
\* not attached to a REST API until a method uses it.
NewAuthorizer ==
    /\ Step("Authorizer", "Role")
    /\ Declare(guardian_autorizer,
               [kind |-> "Authorizer", refs |-> Range(authorizer_cognito_user_pools),
                cognito_user_pools |-> authorizer_cognito_user_pools,
                rest_api |-> ""])
    /\ UNCHANGED <<s_idx, created, resp>>

\* iam.Role(self, "GuardianLambdaRole", ...)
NewRole ==
    /\ Step("Role", "Function")
    /\ Declare(guardian_lambda_role,
               [kind |-> "Role", refs |-> {},
                assumed_by |-> role_assumed_by,
                managed_policies |-> role_managed_policies])
    /\ UNCHANGED <<s_idx, created, resp>>

\* aws_lambda.Function(self, "GuardianReadLambda", vpc=..., role=..., ...)
NewFunction ==
    /\ Step("Function", "RestApi")
    /\ Declare(guardian_api_backend_lambda,
               [kind |-> "Function",
                refs |-> {lambda_vpc, lambda_role} \ {""},
                handler |-> "api_read_lambda.handler",
                vpc |-> lambda_vpc,
                subnets |-> IF lambda_vpc = "" THEN {}
                            ELSE DefaultSubnets(tree[lambda_vpc].subnet_configuration),
                role |-> lambda_role])
    /\ UNCHANGED <<s_idx, created, resp>>

\* apigateway.RestApi(self, "GuardianApiGatewayWithCors", deploy=False, ...):
\* with deploy left on, the REST API brings a deployment and a "prod" stage of
\* its own.
NewRestApi ==
    /\ Step("RestApi", "Resource")
    /\ LET api == [kind |-> "RestApi", refs |-> {}, rest_api_name |-> "GuardianAPI",
                   deploy |-> rest_api_deploy]
           dep == [kind |-> "Deployment", refs |-> {guardian_api}, api |-> guardian_api]
           stg == [kind |-> "Stage", refs |-> {guardian_api, "Deployment"},
                   deployment |-> "Deployment", stage_name |-> "prod"]
       IN tree' = [x \in Declared \cup {guardian_api}
                         \cup (IF rest_api_deploy THEN {"Deployment", "DeploymentStage.prod"}
                               ELSE {})
                     |-> IF x = guardian_api THEN api
                         ELSE IF x = "Deployment" THEN dep
                         ELSE IF x = "DeploymentStage.prod" THEN stg
                         ELSE tree[x]]
    /\ UNCHANGED <<s_idx, created, resp>>

\* guardian_api.root.add_resource("galaxy", default_cors_preflight_options=...):
\* the resource and its OPTIONS (preflight) method.
AddResource ==
    /\ Step("Resource", "Method")
    /\ LET res == [kind |-> "Resource", refs |-> {guardian_api},
                   path_part |-> "galaxy", api |-> guardian_api]
           opt == [kind |-> "Method", refs |-> {guardian_api, guardian_endpoint},
                   http_method |-> "OPTIONS", resource |-> guardian_endpoint,
                   api |-> guardian_api,
                   authorization_type |-> "NONE", authorizer |-> "",
                   authorization_scopes |-> <<>>,
                   integration |-> [handler |-> "", proxy |-> FALSE,
                                    integration_responses |-> <<>>],
                   method_responses |-> <<>>,
                   allow_methods |-> cors_allow_methods,
                   allow_origins |-> cors_allow_origins]
       IN tree' = [x \in Declared \cup {guardian_endpoint, "galaxy/OPTIONS"}
                     |-> IF x = guardian_endpoint THEN res
                         ELSE IF x = "galaxy/OPTIONS" THEN opt
                         ELSE tree[x]]
    /\ UNCHANGED <<s_idx, created, resp>>

\* guardian_endpoint.add_method("GET", integration, authorizer=..., ...): the
\* method; the authorizer it uses is attached to the method's REST API.
AddMethod ==
    /\ Step("Method", "Deployment")
    /\ LET get == [kind |-> "Method",
                   refs |-> ({guardian_api, guardian_endpoint, method_authorizer,
                              guardian_endpoint_lambda_integration.handler} \ {""})
                            \cup RefsOfAll(method_authorization_scopes),
                   http_method |-> "GET", resource |-> guardian_endpoint,
                   api |-> guardian_api,
                   authorization_type |-> method_authorization_type,
                   authorizer |-> method_authorizer,
                   authorization_scopes |-> method_authorization_scopes,
                   integration |-> guardian_endpoint_lambda_integration,
                   method_responses |-> method_responses,
                   allow_methods |-> <<>>,
                   allow_origins |-> <<>>]
       IN tree' = [x \in Declared \cup {"galaxy/GET"}
                     |-> IF x = "galaxy/GET" THEN get
                         ELSE IF x = method_authorizer
                         THEN [tree[x] EXCEPT !.rest_api = guardian_api,
                                              !.refs = @ \cup {guardian_api}]
                         ELSE tree[x]]
    /\ UNCHANGED <<s_idx, created, resp>>

\* apigateway.Deployment(self, "GuardianAPIGWDeployment", api=guardian_api): a
\* deployment waits for the methods its REST API has.
NewDeployment ==
    /\ Step("Deployment", "Stage")
    /\ Declare(guardian_api_deployment,
               [kind |-> "Deployment",
                refs |-> {guardian_api}
                         \cup {m \in OfKind("Method") : tree[m].api = guardian_api},
                api |-> guardian_api])
    /\ UNCHANGED <<s_idx, created, resp>>

\* for s in stages: apigateway.Stage(self, s + "_stage", deployment=..., stage_name=s)
NewStage ==
    /\ pc = "Stage"
    /\ s_idx <= Len(stages)
    /\ Declare(StageId(stages[s_idx]),
               [kind |-> "Stage",
                refs |-> {guardian_api_deployment, tree[guardian_api_deployment].api},
                deployment |-> guardian_api_deployment,
                stage_name |-> stages[s_idx]])
    /\ s_idx' = s_idx + 1
    /\ UNCHANGED <<pc, created, resp>>

\* The loop ends, the constructor returns, and app.synth() writes the template.
Synth ==
    /\ pc = "Stage"
    /\ s_idx > Len(stages)
    /\ pc' = "done"
    /\ UNCHANGED <<tree, s_idx, created, resp>>

Construct ==
    \/ NewVpc \/ NewUserPool \/ NewUserPoolDomain \/ AddResourceServer
    \/ AddClient \/ NewAuthorizer \/ NewRole \/ NewFunction \/ NewRestApi
    \/ AddResource \/ AddMethod \/ NewDeployment \/ NewStage \/ Synth

(***************************************************************************)
(* Deployment: the orchestration engine creates the declared resources,    *)
(* each one only when every resource it refers to exists.                  *)
(***************************************************************************)
Create(r) ==
    /\ pc = "done"
    /\ r \in Declared \ created
    /\ tree[r].refs \subseteq created
    /\ created' = created \cup {r}
    /\ UNCHANGED <<tree, pc, s_idx, resp>>

Deploy == \E r \in Declared : Create(r)

Deployed == pc = "done" /\ created = Declared

\* What a reference to a created resource resolves to: a resource server's is
\* the identifier it was declared with.
Ref(id) ==
    IF id \in Declared /\ tree[id].kind = "UserPoolResourceServer"
    THEN tree[id].identifier
    ELSE id

RECURSIVE Resolve(_)
Resolve(parts) ==
    IF parts = <<>> THEN ""
    ELSE LET h == Head(parts)
         IN (IF IsLit(h) THEN h.lit ELSE Ref(h.ref)) \o Resolve(Tail(parts))

(***************************************************************************)
(* The gateway's request lifecycle on a deployed stage:                    *)
(* receive -> authorize -> integrate -> respond.                           *)
(***************************************************************************)
HttpMethods == {"GET", "OPTIONS", "POST"}

Issuers == {guardian_user_pool, "ForeignPool"}

ScopeUniverse ==
    {"guardian-cognito-resource-server/guardian.read",
     "guardian-cognito-resource-server/guardian.write",
     "GuardianCognitoResourceServer/guardian.read"}

ACAO == "Access-Control-Allow-Origin"

\* What the backend function may answer: its code is not part of the stack.
FnResponses == [status : {"200", "500"}, headers : {{}, {<<ACAO, "*">>}, {<<ACAO, "null">>}}]

StageNames == {tree[id].stage_name : id \in OfKind("Stage") \cap created}

MethodFor(http) ==
    {m \in OfKind("Method") \cap created :
        tree[m].http_method = http /\ tree[m].resource = guardian_endpoint}

\* The authorizer's verdict on a bearer token for method m.
Authorize(m, valid, issuer, scopes) ==
    LET need == tree[m].authorization_scopes
        a    == tree[m].authorizer
    IN \/ tree[m].authorization_type = "NONE"
       \/ /\ tree[m].authorization_type = "COGNITO"
          /\ a \in Declared
          /\ valid
          /\ issuer \in Range(tree[a].cognito_user_pools)
          /\ need = <<>> \/ \E i \in DOMAIN need : Resolve(need[i]) \in scopes

RECURSIVE Join(_, _)
Join(seq, sep) ==
    IF seq = <<>> THEN ""
    ELSE IF Len(seq) = 1 THEN seq[1]
    ELSE seq[1] \o sep \o Join(Tail(seq), sep)

\* The preflight answer of a resource's OPTIONS method.
Preflight(m) ==
    [status |-> "204",
     headers |-> {<<ACAO, tree[m].allow_origins[1]>>,
                  <<"Access-Control-Allow-Methods", Join(tree[m].allow_methods, ",")>>}]

\* 'x' -> x: a static value of an integration response.
Unquote(v) == IF v = "'*'" THEN "*" ELSE v

HeaderName(param) ==
    IF param = "method.response.header.Access-Control-Allow-Origin" THEN ACAO ELSE param

\* The headers an integration response maps onto the method response's declared ones.
MappedHeaders(m) ==
    LET ir == tree[m].integration.integration_responses
        mr == tree[m].method_responses
        declared == UNION {{p[1] : p \in {q \in mr[i].response_parameters : q[2]}}
                           : i \in DOMAIN mr}
    IN UNION {{<<HeaderName(p[1]), Unquote(p[2])>>
                  : p \in {q \in ir[i].response_parameters : q[1] \in declared}}
              : i \in DOMAIN ir}

\* What the gateway answers once the function has answered fn: a proxy
\* integration passes the function's answer through as it is; otherwise the
\* integration response is applied.
IntegrationResult(m, fn) ==
    IF tree[m].integration.proxy
    THEN [status |-> fn.status, headers |-> fn.headers]
    ELSE [status |-> "200", headers |-> MappedHeaders(m)]

Handle(stage, http, valid, issuer, scopes, fn) ==
    LET base == [stage |-> stage, method |-> http, valid |-> valid, issuer |-> issuer,
                 scopes |-> scopes, invoked |-> FALSE, status |-> "403", headers |-> {}]
        ms   == MethodFor(http)
        m    == CHOOSE x \in ms : TRUE
    IN IF ms = {} THEN base
       ELSE IF ~Authorize(m, valid, issuer, scopes)
       THEN [base EXCEPT !.status = IF valid THEN "403" ELSE "401"]
       ELSE IF tree[m].integration.handler = ""
       THEN [base EXCEPT !.status = Preflight(m).status, !.headers = Preflight(m).headers]
       ELSE [base EXCEPT !.invoked = TRUE,
                         !.status = IntegrationResult(m, fn).status,
                         !.headers = IntegrationResult(m, fn).headers]

Request ==
    /\ Deployed
    /\ \E stage \in StageNames, http \in HttpMethods, valid \in BOOLEAN,
          issuer \in Issuers, scopes \in SUBSET ScopeUniverse, fn \in FnResponses :
          resp' = Handle(stage, http, valid, issuer, scopes, fn)
    /\ UNCHANGED <<tree, pc, s_idx, created>>

Next ==
    \/ NewVpc \/ NewUserPool \/ NewUserPoolDomain \/ AddResourceServer
    \/ AddClient \/ NewAuthorizer \/ NewRole \/ NewFunction \/ NewRestApi
    \/ AddResource \/ AddMethod \/ NewDeployment \/ NewStage \/ Synth
    \/ Deploy
    \/ Request

Spec == Init /\ [][Next]_vars

\* The constructor runs to its end and the engine does not stop while a
\* resource it can create is left.
LiveSpec == Spec /\ WF_vars(Construct) /\ WF_vars(Deploy)

(***************************************************************************)
(* Properties.                                                             *)
(***************************************************************************)
Get == tree["galaxy/GET"]

Options == tree["galaxy/OPTIONS"]

Client == tree["GuardianAppClient"]

Count(k) == Cardinality(OfKind(k))

\* The string a reference to the resource server, "/" and a scope name make.
ScopeOf(server, name) == <<Tok(server), Lit("/" \o name)>>

\* A GET whose bearer token is valid, was issued by GuardianPool and carries
\* the read scope.
C1_Authorized ==
    /\ resp.method = "GET"
    /\ resp.valid
    /\ resp.issuer = "GuardianPool"
    /\ (resource_server_identifier \o "/" \o guardian_readonly_scope.scope_name)
          \in resp.scopes

\* C1: on either stage the function is invoked only for a GET whose token is
\* valid, was issued by GuardianPool and carries the scope
\* "{resourceServerId}/{scopeName}"; every other request is answered by the
\* gateway without the function being invoked.
C1_GateBeforeIntegrate ==
    /\ resp.invoked => C1_Authorized
    /\ (resp.stage # "" /\ resp.method = "GET" /\ ~C1_Authorized)
          => (~resp.invoked /\ resp.status \in {"401", "403"})

C1_Witness ==
    /\ resp.invoked
    /\ resp.stage = "prod"
    /\ resp.scopes = {"guardian-cognito-resource-server/guardian.read"}

\* C2 (as stated): in the synthesized template the GET method on /galaxy uses
\* the Cognito authorizer GuardianAPIAuthorizer and its authorizationScopes is
\* exactly the literal ["guardian-cognito-resource-server/guardian.read"].
C2_Original ==
    pc = "done" =>
        /\ Get.authorization_type = "COGNITO"
        /\ Get.authorizer = "GuardianAPIAuthorizer"
        /\ Get.authorization_scopes =
              << <<Lit("guardian-cognito-resource-server/guardian.read")>> >>

\* C2 (amended): in the synthesized template the GET method on /galaxy uses
\* the Cognito authorizer GuardianAPIAuthorizer and its authorizationScopes
\* has exactly one entry: a reference to the resource server
\* GuardianCognitoResourceServer (declared with the identifier
\* "guardian-cognito-resource-server") followed by "/guardian.read".
C2_ScopesReferToServer ==
    pc = "done" =>
        /\ Get.authorization_type = "COGNITO"
        /\ Get.authorizer = "GuardianAPIAuthorizer"
        /\ tree[Get.authorizer].kind = "Authorizer"
        /\ Get.authorization_scopes =
              << <<Tok("GuardianCognitoResourceServer"), Lit("/guardian.read")>> >>
        /\ tree["GuardianCognitoResourceServer"].identifier =
              "guardian-cognito-resource-server"

C2_Witness == pc = "done" /\ "galaxy/GET" \in Declared /\ Len(Get.authorization_scopes) = 1

\* C3: the client's allowed scope is a scope declared on a resource server of
\* the pool the authorizer refers to, the GET method requires that same scope,
\* and no resource refers to an undeclared one.
C3_ReferenceIntegrity ==
    pc = "done" =>
        LET server == tree["GuardianCognitoResourceServer"]
            auth   == tree["GuardianAPIAuthorizer"]
        IN /\ \A id \in Declared : tree[id].refs \subseteq Declared
           /\ tree["GuardianPool"].kind = "UserPool"
           /\ server.kind = "UserPoolResourceServer"
           /\ server.user_pool = "GuardianPool"
           /\ Client.user_pool = "GuardianPool"
           /\ Range(auth.cognito_user_pools) = {"GuardianPool"}
           /\ \E sc \in Range(server.scopes) :
                 Client.o_auth_scopes =
                    <<ScopeOf("GuardianCognitoResourceServer", sc.scope_name)>>
           /\ Get.authorizer = "GuardianAPIAuthorizer"
           /\ Get.authorization_scopes = Client.o_auth_scopes

C3_Witness ==
    /\ pc = "done"
    /\ "GuardianAppClient" \in Declared
    /\ TokenRefs(Client.o_auth_scopes[1]) = {"GuardianCognitoResourceServer"}

\* C4: constructing the stack once declares exactly one network, identity
\* pool, hosted domain, resource server (with exactly one scope), application
\* client, execution role, function, REST API and authorizer, and two stages.
C4_ResourceCounts ==
    pc = "done" =>
        /\ \A k \in {"Vpc", "UserPool", "UserPoolDomain", "UserPoolResourceServer",
                     "UserPoolClient", "Role", "Function", "RestApi", "Authorizer"} :
              Count(k) = 1
        /\ \A id \in OfKind("UserPoolResourceServer") : Len(tree[id].scopes) = 1
        /\ Count("Stage") = 2

C4_Witness == pc = "done" /\ Count("Stage") = 2 /\ Cardinality(Declared) = 15

\* C5: exactly two stages exist, named "dev" and "prod", both of the one
\* deployment GuardianAPIGWDeployment of the one REST API, which brings no
\* deployment or stage of its own.
C5_TwoStagesOneDeployment ==
    pc = "done" =>
        /\ Count("Stage") = 2
        /\ {tree[id].stage_name : id \in OfKind("Stage")} = {"dev", "prod"}
        /\ \A id \in OfKind("Stage") : tree[id].deployment = "GuardianAPIGWDeployment"
        /\ OfKind("Deployment") = {"GuardianAPIGWDeployment"}
        /\ OfKind("RestApi") = {tree["GuardianAPIGWDeployment"].api}
        /\ \A id \in OfKind("RestApi") : ~tree[id].deploy

C5_Witness ==
    /\ pc = "done"
    /\ {"dev_stage", "prod_stage"} \subseteq Declared
    /\ tree["dev_stage"].deployment = tree["prod_stage"].deployment

\* C6: the client's allowed scopes are exactly the declared scope
\* (guardian.read on guardian-cognito-resource-server), its only OAuth flow is
\* the client-credentials grant, and a secret is generated.
C6_ClientGrant ==
    pc = "done" =>
        /\ Client.o_auth_scopes =
              <<ScopeOf("GuardianCognitoResourceServer", "guardian.read")>>
        /\ tree["GuardianCognitoResourceServer"].identifier =
              "guardian-cognito-resource-server"
        /\ "guardian.read" \in
              {sc.scope_name : sc \in Range(tree["GuardianCognitoResourceServer"].scopes)}
        /\ Client.o_auth_flows = {"client_credentials"}
        /\ Client.generate_secret

C6_Witness ==
    pc = "done" /\ "GuardianAppClient" \in Declared /\ Len(Client.o_auth_scopes) = 1

\* C7: every 200 answer to an authorized GET /galaxy carries
\* Access-Control-Allow-Origin: *, whatever the function returned.
C7_CorsHeaderOnSuccess ==
    (resp.invoked /\ resp.method = "GET" /\ resp.status = "200")
        => <<ACAO, "*">> \in resp.headers

\* C8: the function is placed in the declared network, in its private-isolated
\* subnet group only, and runs under the declared role, which trusts the
\* function service and carries the VPC-access managed policy.
C8_FunctionPlacement ==
    pc = "done" =>
        LET fn  == tree["GuardianReadLambda"]
            cfg == tree["GuardianVPC"].subnet_configuration
        IN /\ fn.vpc = "GuardianVPC"
           /\ tree["GuardianVPC"].kind = "Vpc"
           /\ fn.subnets # {}
           /\ \A i \in DOMAIN cfg :
                 cfg[i].name \in fn.subnets <=> cfg[i].subnet_type = "PRIVATE_ISOLATED"
           /\ fn.role = "GuardianLambdaRole"
           /\ tree["GuardianLambdaRole"].kind = "Role"
           /\ tree["GuardianLambdaRole"].assumed_by = "lambda.amazonaws.com"
           /\ "service-role/AWSLambdaVPCAccessExecutionRole"
                 \in Range(tree["GuardianLambdaRole"].managed_policies)

C8_Witness ==
    /\ pc = "done"
    /\ "GuardianReadLambda" \in Declared
    /\ tree["GuardianReadLambda"].subnets = {"GuardianSubnetPrivate"}

\* C9: the preflight (OPTIONS) method of /galaxy allows exactly the methods
\* GET and OPTIONS and all origins, in the template and in every preflight
\* answer.
C9_Preflight ==
    /\ pc = "done" =>
          /\ Options.http_method = "OPTIONS"
          /\ Options.resource = "galaxy"
          /\ Range(Options.allow_methods) = {"GET", "OPTIONS"}
          /\ Len(Options.allow_methods) = 2
          /\ Options.allow_origins = <<"*">>
    /\ (resp.method = "OPTIONS" /\ resp.stage # "") =>
          /\ resp.status = "204"
          /\ ~resp.invoked
          /\ <<ACAO, "*">> \in resp.headers
          /\ <<"Access-Control-Allow-Methods", "GET,OPTIONS">> \in resp.headers
          /\ \A h \in resp.headers :
                h[1] \in {ACAO, "Access-Control-Allow-Methods"}
                   => h[2] \in {"*", "GET,OPTIONS"}

C9_Witness == resp.method = "OPTIONS" /\ resp.stage = "dev" /\ resp.status = "204"

\* The resources reachable from a set of resources along references.
RECURSIVE ReachFrom(_, _)
ReachFrom(frontier, seen) ==
    LET next == (UNION {tree[x].refs \cap Declared : x \in frontier}) \ seen
    IN IF next = {} THEN seen ELSE ReachFrom(next, seen \cup next)

Acyclic == \A id \in Declared : id \notin ReachFrom({id}, {})

After(later, earlier) == later \in created => earlier \in created

CreationOrder ==
    /\ After("GuardianAppClient", "GuardianCognitoResourceServer")
    /\ After("GuardianCognitoResourceServer", "GuardianPool")
    /\ After("GuardianAPIAuthorizer", "GuardianPool")
    /\ After("GuardianAPIAuthorizer", "GuardianApiGatewayWithCors")
    /\ After("GuardianReadLambda", "GuardianVPC")
    /\ After("GuardianReadLambda", "GuardianLambdaRole")
    /\ After("galaxy/GET", "GuardianAPIAuthorizer")
    /\ After("galaxy/GET", "GuardianReadLambda")
    /\ After("GuardianAPIGWDeployment", "GuardianApiGatewayWithCors")
    /\ After("dev_stage", "GuardianAPIGWDeployment")
    /\ After("prod_stage", "GuardianAPIGWDeployment")

AllCreated ==
    /\ pc = "done"
    /\ created = Declared
    /\ {"GuardianVPC", "GuardianPool", "GuardianUserPoolDomain",
        "GuardianCognitoResourceServer", "GuardianAppClient", "GuardianAPIAuthorizer",
        "GuardianLambdaRole", "GuardianReadLambda", "GuardianApiGatewayWithCors",
        "galaxy", "galaxy/GET", "GuardianAPIGWDeployment", "dev_stage", "prod_stage"}
          \subseteq created

====
